---- MODULE Spec2Model ----
(***************************************************************************)
(* A model of the time wheel of github.com/HuXin0817/timewheel             *)
(* (src/timewheel.go): the two bucket stores (timeslot), the Timer and     *)
(* Ticker entries, the TimeWheel with its Driver goroutine, and the        *)
(* callers of the public API.                                              *)
(*                                                                         *)
(* Every goroutine is a process with a program counter.  One action is one *)
(* shared-memory step of the source (an atomic Load or Store, a channel    *)
(* send or receive, a map access, a critical section of timeslot.mu);      *)
(* purely local computation is folded into the step that precedes it.      *)
(* Durations are whole milliseconds.  A channel of capacity 1 is the       *)
(* number (0 or 1) of values it holds; a send is enabled only when it is 0.*)
(***************************************************************************)
EXTENDS Integers, Sequences, FiniteSets, TLC

\* ------------------------------------------------------------------ bounds

\* The pulse source emits at most MaxTick pulses.
MaxTick == 3
\* At most NumTimers Timers and NumTickers Tickers are ever created.
NumTimers == 2
NumTickers == 1

\* const minInterval = 10 * time.Millisecond
minInterval == 10

TimerIds == 1..NumTimers
TickerIds == 1..NumTickers
\* The goroutines that call the public API.
Callers == {"a", "b"}
\* The arguments of New, of NewTimer/After/NewTicker/Ticker.Reset, and of
\* TimeWheel.Reset (milliseconds).
NewArgs == {5, 20}
Durations == {5, 20, 35}
ResetArgs == {0, 5, 20}

VARIABLES
    \* TimeWheel
    now,          \* tw.now: the timestamp of the last pulse received
    current,      \* tw.current
    interval,     \* tw.interval
    wstop,        \* tw.stop
    panicked,     \* a goroutine panicked: the process is gone
    \* tw.ticker, the runtime's time.Ticker
    pulseOn,      \* the ticker is running
    pulseC,       \* tw.ticker.C: 0 when empty, else the timestamp it holds
    clock,        \* the timestamp of the last pulse emitted
    \* the bucket stores: functions from the present keys to sequences
    timerSlot,    \* tw.timerSlot.slot
    tickerSlot,   \* tw.tickerSlot.slot
    \* Timers
    nT,           \* the number of Timers allocated
    tStop,        \* Timer.stop
    tC,           \* len(Timer.C)
    \* Tickers
    nK,           \* the number of Tickers allocated
    kStop,        \* Ticker.stop
    kC,           \* len(Ticker.C)
    kInc,         \* Ticker.increment
    \* the Driver goroutine
    dpc,          \* where it is
    ds,           \* done's s: the slice read from the map
    di,           \* the position of done's range loop in s
    \* the callers
    cpc,          \* where each is
    carg,         \* the Timer or Ticker its call is on
    cloc,         \* the bucket index its NewTimer/NewTicker computed
    cdur,         \* the duration its NewTimer/NewTicker was called with
    \* history, read by the properties only
    hist

wheelVars == <<now, current, interval, wstop, panicked>>
pulseVars == <<pulseOn, pulseC, clock>>
timerVars == <<nT, tStop, tC>>
tickerVars == <<nK, kStop, kC, kInc>>
driverVars == <<dpc, ds, di>>
callerVars == <<cpc, carg, cloc, cdur>>
vars == <<now, current, interval, wstop, panicked, pulseOn, pulseC, clock,
          timerSlot, tickerSlot, nT, tStop, tC, nK, kStop, kC, kInc,
          dpc, ds, di, cpc, carg, cloc, cdur, hist>>

\* ----------------------------------------------------------- pure functions

\* Go's integer division truncates toward zero.
Quot(a, b) == IF a >= 0 THEN a \div b ELSE -((-a) \div b)

\* New: if interval < minInterval { interval = minInterval }
ClampInterval(i) == IF i < minInterval THEN minInterval ELSE i

\* increment without its d <= interval case
incrementNoClamp(d, i) == Quot(d, i)

\* TimeWheel.increment, reading tw.interval as i
increment(d, i) == IF d <= i THEN 1 ELSE Quot(d, i)

\* Ticker.Reset's int64(d / t.belong.interval)
ResetIncrement(d, i) == Quot(d, i)

\* An add that puts the entry at the front of its bucket
addFront(m, idx, e) ==
    [i \in DOMAIN m \cup {idx} |->
        IF i \in DOMAIN m
        THEN IF i = idx THEN <<e>> \o m[i] ELSE m[i]
        ELSE <<e>>]

\* timeslot.add's update of the map, inside its critical section
add(m, idx, e) ==
    [i \in DOMAIN m \cup {idx} |->
        IF i \in DOMAIN m
        THEN IF i = idx THEN Append(m[i], e) ELSE m[i]
        ELSE <<e>>]

\* timeslot.done's delete(ts.slot, idx)
delete(m, idx) == [i \in DOMAIN m \ {idx} |-> m[i]]

\* The buckets (keys) of map m that hold entry e.
BucketsOf(m, e) == {i \in DOMAIN m : \E j \in 1..Len(m[i]) : m[i][j] = e}

\* Stop without its check of the flag
StopNeverReturnsEarly(flag) == FALSE

\* Timer.Stop and Ticker.Stop: if t.stop.Load() { return }
StopReturnsEarly(flag) == flag

\* The re-arm index one tick late
RearmOneLate(cur, inc) == cur + inc + 1

\* The tickerSlot callback's tw.current + t.increment.Load()
RearmIndex(cur, inc) == cur + inc

\* ------------------------------------------------------------------- state

\* A Timer or Ticker is published once the add of its NewTimer/NewTicker is
\* done: from then on callers hold the handle.
TimerPublished(t) ==
    t <= nT /\ ~\E th \in Callers : cpc[th] = "ntAdd" /\ carg[th] = t
TickerPublished(k) ==
    k <= nK /\ ~\E th \in Callers : cpc[th] = "nkAdd" /\ carg[th] = k

\* The history: what has happened so far, for the properties to read.
NoHist ==
    [tSent |-> [t \in TimerIds |-> 0],        \* sends completed on t.C
     tCalls |-> [t \in TimerIds |-> 0],       \* Stop() calls returned on t (2: two or more)
     tFired |-> [t \in TimerIds |-> {}],      \* the ticks at which the Driver called back t
     tIdx |-> [t \in TimerIds |-> 0],         \* the bucket index NewTimer computed for t
     tPub |-> [t \in TimerIds |-> 0],         \* tw.current when NewTimer added t
     kSent |-> [k \in TickerIds |-> 0],       \* sends completed by Stop() on k.C
     kCalls |-> [k \in TickerIds |-> 0],      \* Stop() calls returned on k (2: two or more)
     kFired |-> [k \in TickerIds |-> {}],     \* the ticks at which the Driver sent a tick on k.C
     kT0 |-> [k \in TickerIds |-> 0],         \* tw.current as NewTicker read it
     kDue |-> [k \in TickerIds |-> {}],       \* the indices k was added under
     wStopped |-> FALSE,                      \* a TimeWheel.Stop() call has returned
     wCur |-> 0]                              \* tw.current when the first one returned

\* New(interval): the state once New has returned and the Driver goroutine
\* waits for its first pulse.
Init ==
    /\ now = 0
    /\ current = 0
    /\ interval \in {ClampInterval(i) : i \in NewArgs}
    /\ wstop = FALSE
    /\ panicked = FALSE
    /\ pulseOn = TRUE
    /\ pulseC = 0
    /\ clock = 0
    /\ timerSlot = <<>>
    /\ tickerSlot = <<>>
    /\ nT = 0
    /\ tStop = [t \in TimerIds |-> FALSE]
    /\ tC = [t \in TimerIds |-> 0]
    /\ nK = 0
    /\ kStop = [k \in TickerIds |-> FALSE]
    /\ kC = [k \in TickerIds |-> 0]
    /\ kInc = [k \in TickerIds |-> 0]
    /\ dpc = "recv"
    /\ ds = <<>>
    /\ di = 0
    /\ cpc = [th \in Callers |-> "idle"]
    /\ carg = [th \in Callers |-> 0]
    /\ cloc = [th \in Callers |-> 0]
    /\ cdur = [th \in Callers |-> 0]
    /\ hist = NoHist

\* ------------------------------------------------------- the pulse source

\* The runtime's ticker sends the time on tw.ticker.C once per period; the
\* channel holds one value and a pulse that finds it full is dropped.
PulseEmit ==
    /\ ~panicked /\ pulseOn /\ pulseC = 0 /\ clock < MaxTick
    /\ clock' = clock + 1
    /\ pulseC' = clock + 1
    /\ UNCHANGED <<pulseOn, wheelVars, timerSlot, tickerSlot, timerVars,
                   tickerVars, driverVars, callerVars, hist>>

\* ------------------------------------------------------------- the Driver

\* The pc after the callback on s[di] has returned: the next element of
\* done's range loop, or the delete that follows the loop.
NextElem(load, del) == IF di + 1 > Len(ds) THEN del ELSE load

\* for tw.now = range tw.ticker.C
DriverRecv ==
    /\ ~panicked /\ dpc = "recv" /\ pulseC # 0
    /\ now' = pulseC
    /\ pulseC' = 0
    /\ dpc' = "check"
    /\ UNCHANGED <<current, interval, wstop, panicked, pulseOn, clock,
                   timerSlot, tickerSlot, timerVars, tickerVars, ds, di,
                   callerVars, hist>>

\* The Driver's loop without its check of tw.stop
DriverCheckNoStop ==
    /\ ~panicked /\ dpc = "check"
    /\ dpc' = "inc"
    /\ UNCHANGED <<wheelVars, pulseVars, timerSlot, tickerSlot, timerVars,
                   tickerVars, ds, di, callerVars, hist>>

\* if tw.stop.Load() { return }
DriverCheck ==
    /\ ~panicked /\ dpc = "check"
    /\ dpc' = IF wstop THEN "exited" ELSE "inc"
    /\ UNCHANGED <<wheelVars, pulseVars, timerSlot, tickerSlot, timerVars,
                   tickerVars, ds, di, callerVars, hist>>

\* The Driver's loop advancing the index by two
DriverIncSkips ==
    /\ ~panicked /\ dpc = "inc"
    /\ current' = current + 2
    /\ dpc' = "tRead"
    /\ UNCHANGED <<now, interval, wstop, panicked, pulseVars, timerSlot,
                   tickerSlot, timerVars, tickerVars, ds, di, callerVars,
                   hist>>

\* tw.current++
DriverInc ==
    /\ ~panicked /\ dpc = "inc"
    /\ current' = current + 1
    /\ dpc' = "tRead"
    /\ UNCHANGED <<now, interval, wstop, panicked, pulseVars, timerSlot,
                   tickerSlot, timerVars, tickerVars, ds, di, callerVars,
                   hist>>

\* tw.timerSlot.done(tw.current): if s, ok := ts.slot[idx]; ok
TimerDoneRead ==
    /\ ~panicked /\ dpc = "tRead"
    /\ IF current \in DOMAIN timerSlot
       THEN /\ ds' = timerSlot[current]
            /\ di' = 1
            /\ dpc' = IF Len(timerSlot[current]) = 0 THEN "tDel" ELSE "tLoad"
       ELSE /\ dpc' = "kRead"
            /\ UNCHANGED <<ds, di>>
    /\ UNCHANGED <<wheelVars, pulseVars, timerSlot, tickerSlot, timerVars,
                   tickerVars, callerVars, hist>>

\* ts.do(t) is t.Stop(): if t.stop.Load() { return }
TimerFireLoad ==
    /\ ~panicked /\ dpc = "tLoad"
    /\ IF StopReturnsEarly(tStop[ds[di]])
       THEN /\ dpc' = NextElem("tLoad", "tDel")
            /\ di' = di + 1
       ELSE /\ dpc' = "tStore"
            /\ UNCHANGED di
    /\ hist' = [hist EXCEPT !.tFired[ds[di]] = @ \cup {current},
                            !.tCalls[ds[di]] =
                                IF StopReturnsEarly(tStop[ds[di]]) /\ @ < 2
                                THEN @ + 1 ELSE @]
    /\ UNCHANGED <<wheelVars, pulseVars, timerSlot, tickerSlot, timerVars,
                   tickerVars, ds, callerVars>>

\* t.stop.Store(true)
TimerFireStore ==
    /\ ~panicked /\ dpc = "tStore"
    /\ tStop' = [tStop EXCEPT ![ds[di]] = TRUE]
    /\ dpc' = "tSend"
    /\ UNCHANGED <<wheelVars, pulseVars, timerSlot, tickerSlot, nT, tC,
                   tickerVars, ds, di, callerVars, hist>>

\* t.C <- t.belong.now: blocks while the channel is full
TimerFireSend ==
    /\ ~panicked /\ dpc = "tSend"
    /\ tC[ds[di]] = 0
    /\ tC' = [tC EXCEPT ![ds[di]] = 1]
    /\ hist' = [hist EXCEPT !.tSent[ds[di]] = @ + 1,
                            !.tCalls[ds[di]] = IF @ < 2 THEN @ + 1 ELSE @]
    /\ dpc' = NextElem("tLoad", "tDel")
    /\ di' = di + 1
    /\ UNCHANGED <<wheelVars, pulseVars, timerSlot, tickerSlot, nT, tStop,
                   tickerVars, ds, callerVars>>

\* ts.mu.Lock(); delete(ts.slot, idx); ts.mu.Unlock()
TimerDoneDelete ==
    /\ ~panicked /\ dpc = "tDel"
    /\ timerSlot' = delete(timerSlot, current)
    /\ dpc' = "kRead"
    /\ ds' = <<>>
    /\ di' = 0
    /\ UNCHANGED <<wheelVars, pulseVars, tickerSlot, timerVars, tickerVars,
                   callerVars, hist>>

\* tw.tickerSlot.done(tw.current): if s, ok := ts.slot[idx]; ok
TickerDoneRead ==
    /\ ~panicked /\ dpc = "kRead"
    /\ IF current \in DOMAIN tickerSlot
       THEN /\ ds' = tickerSlot[current]
            /\ di' = 1
            /\ dpc' = IF Len(tickerSlot[current]) = 0 THEN "kDel" ELSE "kLoad"
       ELSE /\ dpc' = "recv"
            /\ UNCHANGED <<ds, di>>
    /\ UNCHANGED <<wheelVars, pulseVars, timerSlot, tickerSlot, timerVars,
                   tickerVars, callerVars, hist>>

\* the tickerSlot callback: if t.stop.Load() { return }
TickerFireLoad ==
    /\ ~panicked /\ dpc = "kLoad"
    /\ IF StopReturnsEarly(kStop[ds[di]])
       THEN /\ dpc' = NextElem("kLoad", "kDel")
            /\ di' = di + 1
       ELSE /\ dpc' = "kSend"
            /\ UNCHANGED di
    /\ UNCHANGED <<wheelVars, pulseVars, timerSlot, tickerSlot, timerVars,
                   tickerVars, ds, callerVars, hist>>

\* t.C <- tw.now: blocks while the channel is full
TickerFireSend ==
    /\ ~panicked /\ dpc = "kSend"
    /\ kC[ds[di]] = 0
    /\ kC' = [kC EXCEPT ![ds[di]] = 1]
    /\ dpc' = "kAdd"
    /\ hist' = [hist EXCEPT !.kFired[ds[di]] = @ \cup {current}]
    /\ UNCHANGED <<wheelVars, pulseVars, timerSlot, tickerSlot, timerVars,
                   nK, kStop, kInc, ds, di, callerVars>>

\* tw.tickerSlot.add(tw.current+t.increment.Load(), t)
TickerFireAdd ==
    /\ ~panicked /\ dpc = "kAdd"
    /\ tickerSlot' = add(tickerSlot, RearmIndex(current, kInc[ds[di]]), ds[di])
    /\ dpc' = NextElem("kLoad", "kDel")
    /\ di' = di + 1
    /\ hist' = [hist EXCEPT !.kDue[ds[di]] =
                                @ \cup {RearmIndex(current, kInc[ds[di]])}]
    /\ UNCHANGED <<wheelVars, pulseVars, timerSlot, timerVars, tickerVars,
                   ds, callerVars>>

\* ts.mu.Lock(); delete(ts.slot, idx); ts.mu.Unlock()
TickerDoneDelete ==
    /\ ~panicked /\ dpc = "kDel"
    /\ tickerSlot' = delete(tickerSlot, current)
    /\ dpc' = "recv"
    /\ ds' = <<>>
    /\ di' = 0
    /\ UNCHANGED <<wheelVars, pulseVars, timerSlot, timerVars, tickerVars,
                   callerVars, hist>>

\* ------------------------------------------------------------- the callers

\* NewTimer, After: idx := tw.current + tw.increment(d), and the allocation
\* of the Timer
NewTimerRead(th, d) ==
    /\ ~panicked /\ cpc[th] = "idle" /\ nT < NumTimers
    /\ nT' = nT + 1
    /\ cpc' = [cpc EXCEPT ![th] = "ntAdd"]
    /\ carg' = [carg EXCEPT ![th] = nT + 1]
    /\ cloc' = [cloc EXCEPT ![th] = current + increment(d, interval)]
    /\ cdur' = [cdur EXCEPT ![th] = d]
    /\ hist' = [hist EXCEPT !.tIdx[nT + 1] = current + increment(d, interval)]
    /\ UNCHANGED <<wheelVars, pulseVars, timerSlot, tickerSlot, tStop, tC,
                   tickerVars, driverVars>>

\* NewTimer: return tw.timerSlot.add(idx, &Timer{...})
NewTimerAdd(th) ==
    /\ ~panicked /\ cpc[th] = "ntAdd"
    /\ timerSlot' = add(timerSlot, cloc[th], carg[th])
    /\ cpc' = [cpc EXCEPT ![th] = "idle"]
    /\ carg' = [carg EXCEPT ![th] = 0]
    /\ cloc' = [cloc EXCEPT ![th] = 0]
    /\ cdur' = [cdur EXCEPT ![th] = 0]
    /\ hist' = [hist EXCEPT !.tPub[carg[th]] = current]
    /\ UNCHANGED <<wheelVars, pulseVars, tickerSlot, timerVars, tickerVars,
                   driverVars>>

\* Timer.Stop: if t.stop.Load() { return }
TimerStopLoad(th, t) ==
    /\ ~panicked /\ cpc[th] = "idle" /\ TimerPublished(t)
    /\ IF StopReturnsEarly(tStop[t])
       THEN /\ hist' = [hist EXCEPT !.tCalls[t] = IF @ < 2 THEN @ + 1 ELSE @]
            /\ UNCHANGED <<cpc, carg>>
       ELSE /\ cpc' = [cpc EXCEPT ![th] = "tsStore"]
            /\ carg' = [carg EXCEPT ![th] = t]
            /\ UNCHANGED hist
    /\ UNCHANGED <<wheelVars, pulseVars, timerSlot, tickerSlot, timerVars,
                   tickerVars, driverVars, cloc, cdur>>

\* Timer.Stop: t.stop.Store(true)
TimerStopStore(th) ==
    /\ ~panicked /\ cpc[th] = "tsStore"
    /\ tStop' = [tStop EXCEPT ![carg[th]] = TRUE]
    /\ cpc' = [cpc EXCEPT ![th] = "tsSend"]
    /\ UNCHANGED <<wheelVars, pulseVars, timerSlot, tickerSlot, nT, tC,
                   tickerVars, driverVars, carg, cloc, cdur, hist>>

\* Timer.Stop: t.C <- t.belong.now, blocking while the channel is full
TimerStopSend(th) ==
    /\ ~panicked /\ cpc[th] = "tsSend"
    /\ tC[carg[th]] = 0
    /\ tC' = [tC EXCEPT ![carg[th]] = 1]
    /\ cpc' = [cpc EXCEPT ![th] = "idle"]
    /\ carg' = [carg EXCEPT ![th] = 0]
    /\ hist' = [hist EXCEPT !.tSent[carg[th]] = @ + 1,
                            !.tCalls[carg[th]] = IF @ < 2 THEN @ + 1 ELSE @]
    /\ UNCHANGED <<wheelVars, pulseVars, timerSlot, tickerSlot, nT, tStop,
                   tickerVars, driverVars, cloc, cdur>>

\* NewTicker: increment := tw.increment(d); ticker.increment.Store(increment);
\* tw.current + increment
NewTickerRead(th, d) ==
    /\ ~panicked /\ cpc[th] = "idle" /\ nK < NumTickers
    /\ nK' = nK + 1
    /\ kInc' = [kInc EXCEPT ![nK + 1] = increment(d, interval)]
    /\ cpc' = [cpc EXCEPT ![th] = "nkAdd"]
    /\ carg' = [carg EXCEPT ![th] = nK + 1]
    /\ cloc' = [cloc EXCEPT ![th] = current + increment(d, interval)]
    /\ cdur' = [cdur EXCEPT ![th] = d]
    /\ hist' = [hist EXCEPT !.kT0[nK + 1] = current]
    /\ UNCHANGED <<wheelVars, pulseVars, timerSlot, tickerSlot, timerVars,
                   kStop, kC, driverVars>>

\* NewTicker: return tw.tickerSlot.add(tw.current+increment, ticker)
NewTickerAdd(th) ==
    /\ ~panicked /\ cpc[th] = "nkAdd"
    /\ tickerSlot' = add(tickerSlot, cloc[th], carg[th])
    /\ cpc' = [cpc EXCEPT ![th] = "idle"]
    /\ carg' = [carg EXCEPT ![th] = 0]
    /\ cloc' = [cloc EXCEPT ![th] = 0]
    /\ cdur' = [cdur EXCEPT ![th] = 0]
    /\ hist' = [hist EXCEPT !.kDue[carg[th]] = @ \cup {cloc[th]}]
    /\ UNCHANGED <<wheelVars, pulseVars, timerSlot, timerVars, tickerVars,
                   driverVars>>

\* A Ticker.Reset that also moves the pending occurrence of the Ticker to
\* tw.current plus the new increment
TickerResetMovesPending(th, k, d) ==
    /\ ~panicked /\ cpc[th] = "idle" /\ TickerPublished(k)
    /\ kInc' = [kInc EXCEPT ![k] = ResetIncrement(d, interval)]
    /\ tickerSlot' =
          add([i \in DOMAIN tickerSlot |->
                  SelectSeq(tickerSlot[i], LAMBDA e : e # k)],
              current + ResetIncrement(d, interval), k)
    /\ UNCHANGED <<wheelVars, pulseVars, timerSlot, timerVars,
                   nK, kStop, kC, driverVars, callerVars, hist>>

\* Ticker.Reset: t.increment.Store(int64(d / t.belong.interval))
TickerReset(th, k, d) ==
    /\ ~panicked /\ cpc[th] = "idle" /\ TickerPublished(k)
    /\ kInc' = [kInc EXCEPT ![k] = ResetIncrement(d, interval)]
    /\ UNCHANGED <<wheelVars, pulseVars, timerSlot, tickerSlot, timerVars,
                   nK, kStop, kC, driverVars, callerVars, hist>>

\* Ticker.Stop: if t.stop.Load() { return }
TickerStopLoad(th, k) ==
    /\ ~panicked /\ cpc[th] = "idle" /\ TickerPublished(k)
    /\ IF StopReturnsEarly(kStop[k])
       THEN /\ hist' = [hist EXCEPT !.kCalls[k] = IF @ < 2 THEN @ + 1 ELSE @]
            /\ UNCHANGED <<cpc, carg>>
       ELSE /\ cpc' = [cpc EXCEPT ![th] = "ksStore"]
            /\ carg' = [carg EXCEPT ![th] = k]
            /\ UNCHANGED hist
    /\ UNCHANGED <<wheelVars, pulseVars, timerSlot, tickerSlot, timerVars,
                   tickerVars, driverVars, cloc, cdur>>

\* Ticker.Stop: t.stop.Store(true)
TickerStopStore(th) ==
    /\ ~panicked /\ cpc[th] = "ksStore"
    /\ kStop' = [kStop EXCEPT ![carg[th]] = TRUE]
    /\ cpc' = [cpc EXCEPT ![th] = "ksSend"]
    /\ UNCHANGED <<wheelVars, pulseVars, timerSlot, tickerSlot, timerVars,
                   nK, kC, kInc, driverVars, carg, cloc, cdur, hist>>

\* Ticker.Stop: t.C <- t.belong.now, blocking while the channel is full
TickerStopSend(th) ==
    /\ ~panicked /\ cpc[th] = "ksSend"
    /\ kC[carg[th]] = 0
    /\ kC' = [kC EXCEPT ![carg[th]] = 1]
    /\ cpc' = [cpc EXCEPT ![th] = "idle"]
    /\ carg' = [carg EXCEPT ![th] = 0]
    /\ hist' = [hist EXCEPT !.kSent[carg[th]] = @ + 1,
                            !.kCalls[carg[th]] = IF @ < 2 THEN @ + 1 ELSE @]
    /\ UNCHANGED <<wheelVars, pulseVars, timerSlot, tickerSlot, timerVars,
                   nK, kStop, kInc, driverVars, cloc, cdur>>

\* TimeWheel.Stop: tw.stop.Store(true)
WheelStopStore(th) ==
    /\ ~panicked /\ cpc[th] = "idle"
    /\ wstop' = TRUE
    /\ cpc' = [cpc EXCEPT ![th] = "wsHalt"]
    /\ UNCHANGED <<now, current, interval, panicked, pulseVars, timerSlot,
                   tickerSlot, timerVars, tickerVars, driverVars, carg, cloc, cdur,
                   hist>>

\* TimeWheel.Stop: tw.ticker.Stop().  The runtime stops sending; a pulse
\* already in the channel stays there (Go before 1.23) or is discarded
\* (Go 1.23 and later).
WheelStopHalt(th) ==
    /\ ~panicked /\ cpc[th] = "wsHalt"
    /\ pulseOn' = FALSE
    /\ pulseC' \in {pulseC, 0}
    /\ cpc' = [cpc EXCEPT ![th] = "idle"]
    /\ hist' = [hist EXCEPT !.wStopped = TRUE,
                            !.wCur = IF hist.wStopped THEN @ ELSE current]
    /\ UNCHANGED <<wheelVars, clock, timerSlot, tickerSlot, timerVars,
                   tickerVars, driverVars, carg, cloc, cdur>>

\* A TimeWheel.Reset that also restarts the tick index
WheelResetRestartsIndex(th, d) ==
    /\ ~panicked /\ cpc[th] = "idle"
    /\ IF d <= 0
       THEN /\ panicked' = TRUE
            /\ UNCHANGED <<interval, current, pulseVars>>
       ELSE /\ interval' = d
            /\ current' = 0
            /\ pulseOn' = TRUE
            /\ pulseC' \in {pulseC, 0}
            /\ UNCHANGED <<panicked, clock>>
    /\ UNCHANGED <<now, wstop, timerSlot, tickerSlot, timerVars,
                   tickerVars, driverVars, callerVars, hist>>

\* TimeWheel.Reset: tw.ticker.Reset(d), which panics unless d > 0 and
\* otherwise restarts the ticker with the new period; tw.interval = d
WheelReset(th, d) ==
    /\ ~panicked /\ cpc[th] = "idle"
    /\ IF d <= 0
       THEN /\ panicked' = TRUE
            /\ UNCHANGED <<interval, pulseVars>>
       ELSE /\ interval' = d
            /\ pulseOn' = TRUE
            /\ pulseC' \in {pulseC, 0}
            /\ UNCHANGED <<panicked, clock>>
    /\ UNCHANGED <<now, current, wstop, timerSlot, tickerSlot, timerVars,
                   tickerVars, driverVars, callerVars, hist>>

\* ----------------------------------------------------------- the consumers

\* <-t.C by whoever holds the Timer
RecvTimer(t) ==
    /\ ~panicked /\ TimerPublished(t) /\ tC[t] = 1
    /\ tC' = [tC EXCEPT ![t] = 0]
    /\ UNCHANGED <<wheelVars, pulseVars, timerSlot, tickerSlot, nT, tStop,
                   tickerVars, driverVars, callerVars, hist>>

\* <-t.C by whoever holds the Ticker
RecvTicker(k) ==
    /\ ~panicked /\ TickerPublished(k) /\ kC[k] = 1
    /\ kC' = [kC EXCEPT ![k] = 0]
    /\ UNCHANGED <<wheelVars, pulseVars, timerSlot, tickerSlot, timerVars,
                   nK, kStop, kInc, driverVars, callerVars, hist>>

\* ------------------------------------------------------ the specifications

\* The Driver's loop and its processing of the timer bucket.
DriverTimerStep ==
    \/ DriverRecv
    \/ DriverCheck
    \/ DriverInc
    \/ TimerDoneRead
    \/ TimerFireLoad
    \/ TimerFireStore
    \/ TimerFireSend
    \/ TimerDoneDelete
    \/ TickerDoneRead

\* The Driver's processing of the ticker bucket.
DriverTickerStep ==
    \/ TickerFireLoad
    \/ TickerFireSend
    \/ TickerFireAdd
    \/ TickerDoneDelete

DriverStep ==
    \/ DriverTimerStep
    \/ DriverTickerStep

TimerCallerStep(th) ==
    \/ \E d \in Durations : NewTimerRead(th, d)
    \/ NewTimerAdd(th)
    \/ \E t \in TimerIds : TimerStopLoad(th, t)
    \/ TimerStopStore(th)
    \/ TimerStopSend(th)

TickerCallerStep(th) ==
    \/ \E d \in Durations : NewTickerRead(th, d)
    \/ NewTickerAdd(th)
    \/ \E k \in TickerIds, d \in Durations : TickerReset(th, k, d)
    \/ \E k \in TickerIds : TickerStopLoad(th, k)
    \/ TickerStopStore(th)
    \/ TickerStopSend(th)

WheelCallerStep(th) ==
    \/ WheelStopStore(th)
    \/ WheelStopHalt(th)
    \/ \E d \in ResetArgs : WheelReset(th, d)

CallerStep(th) ==
    \/ TimerCallerStep(th)
    \/ TickerCallerStep(th)
    \/ WheelCallerStep(th)

ConsumerStep ==
    \/ \E t \in TimerIds : RecvTimer(t)
    \/ \E k \in TickerIds : RecvTicker(k)

\* Every interleaving of the Driver, the callers, the consumers and the
\* pulse source.
Next ==
    \/ PulseEmit
    \/ DriverStep
    \/ \E th \in Callers : CallerStep(th)
    \/ ConsumerStep

Spec == Init /\ [][Next]_vars

\* The serialized schedule: no call overlaps another call or a pulse of the
\* Driver.  A call starts only while the Driver waits for a pulse (or has
\* exited) and no other call is in progress; the Driver takes a pulse only
\* while no call is in progress.
DriverQuiet == dpc \in {"recv", "exited"}
CallersQuiet == \A th \in Callers : cpc[th] = "idle"
Quiet == DriverQuiet /\ CallersQuiet

\* Timers under the serialized schedule: one caller creates and stops them.
SeqTimerNext ==
    \/ PulseEmit
    \/ CallersQuiet /\ DriverRecv
    \/ DriverCheck
    \/ DriverInc
    \/ TimerDoneRead
    \/ TimerFireLoad
    \/ TimerFireStore
    \/ TimerFireSend
    \/ TimerDoneDelete
    \/ TickerDoneRead
    \/ Quiet /\ \E d \in Durations : NewTimerRead("a", d)
    \/ NewTimerAdd("a")
    \/ Quiet /\ \E t \in TimerIds : TimerStopLoad("a", t)
    \/ TimerStopStore("a")
    \/ TimerStopSend("a")
    \/ \E t \in TimerIds : RecvTimer(t)

SpecSeqTimer == Init /\ [][SeqTimerNext]_vars

\* Tickers under the serialized schedule.
SeqTickerNext ==
    \/ PulseEmit
    \/ CallersQuiet /\ DriverRecv
    \/ DriverCheck
    \/ DriverInc
    \/ TimerDoneRead
    \/ TickerDoneRead
    \/ TickerFireLoad
    \/ TickerFireSend
    \/ TickerFireAdd
    \/ TickerDoneDelete
    \/ Quiet /\ \E d \in Durations : NewTickerRead("a", d)
    \/ NewTickerAdd("a")
    \/ Quiet /\ \E k \in TickerIds : TickerStopLoad("a", k)
    \/ TickerStopStore("a")
    \/ TickerStopSend("a")
    \/ \E k \in TickerIds : RecvTicker(k)

SpecSeqTicker == Init /\ [][SeqTickerNext]_vars

\* One Timer and one Ticker under the serialized schedule.
SeqStopNext ==
    \/ PulseEmit
    \/ CallersQuiet /\ DriverRecv
    \/ DriverCheck
    \/ DriverInc
    \/ TimerDoneRead
    \/ TimerFireLoad
    \/ TimerFireStore
    \/ TimerFireSend
    \/ TimerDoneDelete
    \/ TickerDoneRead
    \/ TickerFireLoad
    \/ TickerFireSend
    \/ TickerFireAdd
    \/ TickerDoneDelete
    \/ Quiet /\ nT = 0 /\ \E d \in Durations : NewTimerRead("a", d)
    \/ NewTimerAdd("a")
    \/ Quiet /\ \E t \in TimerIds : TimerStopLoad("a", t)
    \/ TimerStopStore("a")
    \/ TimerStopSend("a")
    \/ Quiet /\ nK = 0 /\ \E d \in Durations : NewTickerRead("a", d)
    \/ NewTickerAdd("a")
    \/ Quiet /\ \E k \in TickerIds : TickerStopLoad("a", k)
    \/ TickerStopStore("a")
    \/ TickerStopSend("a")
    \/ \E t \in TimerIds : RecvTimer(t)
    \/ \E k \in TickerIds : RecvTicker(k)

SpecSeqStop == Init /\ [][SeqStopNext]_vars

\* One Timer under every interleaving: a caller creates a Timer of duration
\* tw.interval, and both callers stop it while the Driver runs.
TimerRaceNext ==
    \/ PulseEmit
    \/ DriverRecv
    \/ DriverCheck
    \/ DriverInc
    \/ TimerDoneRead
    \/ TimerFireLoad
    \/ TimerFireStore
    \/ TimerFireSend
    \/ TimerDoneDelete
    \/ TickerDoneRead
    \/ \E th \in Callers : nT = 0 /\ NewTimerRead(th, interval)
    \/ \E th \in Callers : NewTimerAdd(th)
    \/ \E th \in Callers, t \in TimerIds : TimerStopLoad(th, t)
    \/ \E th \in Callers : TimerStopStore(th)
    \/ \E th \in Callers : TimerStopSend(th)
    \/ \E t \in TimerIds : RecvTimer(t)

SpecTimerRace == Init /\ [][TimerRaceNext]_vars

\* The creation of Timers under every interleaving: the callers create
\* Timers of duration tw.interval while the Driver runs.
CreateRaceNext ==
    \/ PulseEmit
    \/ DriverRecv
    \/ DriverCheck
    \/ DriverInc
    \/ TimerDoneRead
    \/ TimerFireLoad
    \/ TimerFireStore
    \/ TimerFireSend
    \/ TimerDoneDelete
    \/ TickerDoneRead
    \/ \E th \in Callers : NewTimerRead(th, interval)
    \/ \E th \in Callers : NewTimerAdd(th)
    \/ \E t \in TimerIds : RecvTimer(t)

SpecCreateRace == Init /\ [][CreateRaceNext]_vars

\* Tickers under every interleaving: one caller creates, resets and stops
\* them while the Driver runs.
TickerRaceNext ==
    \/ PulseEmit
    \/ DriverRecv
    \/ DriverCheck
    \/ DriverInc
    \/ TimerDoneRead
    \/ TickerDoneRead
    \/ TickerFireLoad
    \/ TickerFireSend
    \/ TickerFireAdd
    \/ TickerDoneDelete
    \/ \E d \in Durations : NewTickerRead("a", d)
    \/ NewTickerAdd("a")
    \/ \E k \in TickerIds, d \in Durations : TickerReset("a", k, d)
    \/ \E k \in TickerIds : TickerStopLoad("a", k)
    \/ TickerStopStore("a")
    \/ TickerStopSend("a")
    \/ \E k \in TickerIds : RecvTicker(k)

SpecTickerRace == Init /\ [][TickerRaceNext]_vars

\* One Ticker under the serialized schedule, with Ticker.Reset.
SeqResetNext ==
    \/ PulseEmit
    \/ CallersQuiet /\ DriverRecv
    \/ DriverCheck
    \/ DriverInc
    \/ TimerDoneRead
    \/ TickerDoneRead
    \/ TickerFireLoad
    \/ TickerFireSend
    \/ TickerFireAdd
    \/ TickerDoneDelete
    \/ Quiet /\ nK = 0 /\ \E d \in Durations : NewTickerRead("a", d)
    \/ NewTickerAdd("a")
    \/ Quiet /\ \E k \in TickerIds, d \in Durations : TickerReset("a", k, d)
    \/ Quiet /\ \E k \in TickerIds : TickerStopLoad("a", k)
    \/ TickerStopStore("a")
    \/ TickerStopSend("a")
    \/ \E k \in TickerIds : RecvTicker(k)

SpecSeqReset == Init /\ [][SeqResetNext]_vars

\* TimeWheel.Stop under every interleaving: caller "a" creates one Timer and
\* one Ticker of one tick, caller "b" stops and resets the wheel, while the
\* Driver runs.
WheelStopNext ==
    \/ PulseEmit
    \/ DriverStep
    \/ nT = 0 /\ NewTimerRead("a", interval)
    \/ NewTimerAdd("a")
    \/ nK = 0 /\ NewTickerRead("a", interval)
    \/ NewTickerAdd("a")
    \/ WheelStopStore("b")
    \/ WheelStopHalt("b")
    \/ \E d \in ResetArgs : WheelReset("b", d)
    \/ ConsumerStep

SpecWheelStop == Init /\ [][WheelStopNext]_vars

\* TimeWheel.Reset under the serialized schedule: one caller creates one
\* Timer and one Ticker, resets the Ticker and resets the wheel.
SeqWheelResetNext ==
    \/ PulseEmit
    \/ CallersQuiet /\ DriverRecv
    \/ DriverCheck
    \/ DriverInc
    \/ TimerDoneRead
    \/ TimerFireLoad
    \/ TimerFireStore
    \/ TimerFireSend
    \/ TimerDoneDelete
    \/ TickerDoneRead
    \/ TickerFireLoad
    \/ TickerFireSend
    \/ TickerFireAdd
    \/ TickerDoneDelete
    \/ Quiet /\ nT = 0 /\ \E d \in Durations : NewTimerRead("a", d)
    \/ NewTimerAdd("a")
    \/ Quiet /\ nK = 0 /\ \E d \in Durations : NewTickerRead("a", d)
    \/ NewTickerAdd("a")
    \/ Quiet /\ \E k \in TickerIds, d \in Durations : TickerReset("a", k, d)
    \/ Quiet /\ \E d \in ResetArgs : WheelReset("a", d)
    \/ \E t \in TimerIds : RecvTimer(t)
    \/ \E k \in TickerIds : RecvTicker(k)

SpecSeqWheelReset == Init /\ [][SeqWheelResetNext]_vars

\* The whole API under the serialized schedule: one caller creates one Timer
\* and one Ticker of one tick, stops them, resets the Ticker, and resets and
\* stops the wheel.
SeqWheelNext ==
    \/ PulseEmit
    \/ CallersQuiet /\ DriverRecv
    \/ DriverCheck
    \/ DriverInc
    \/ TimerDoneRead
    \/ TimerFireLoad
    \/ TimerFireStore
    \/ TimerFireSend
    \/ TimerDoneDelete
    \/ TickerDoneRead
    \/ TickerFireLoad
    \/ TickerFireSend
    \/ TickerFireAdd
    \/ TickerDoneDelete
    \/ Quiet /\ nT = 0 /\ NewTimerRead("a", interval)
    \/ NewTimerAdd("a")
    \/ Quiet /\ \E t \in TimerIds : TimerStopLoad("a", t)
    \/ TimerStopStore("a")
    \/ TimerStopSend("a")
    \/ Quiet /\ nK = 0 /\ NewTickerRead("a", interval)
    \/ NewTickerAdd("a")
    \/ Quiet /\ \E k \in TickerIds : TickerReset("a", k, 2 * interval)
    \/ Quiet /\ \E k \in TickerIds : TickerStopLoad("a", k)
    \/ TickerStopStore("a")
    \/ TickerStopSend("a")
    \/ Quiet /\ WheelStopStore("a")
    \/ WheelStopHalt("a")
    \/ Quiet /\ \E d \in ResetArgs : WheelReset("a", d)
    \/ \E t \in TimerIds : RecvTimer(t)
    \/ \E k \in TickerIds : RecvTicker(k)

SpecSeqWheel == Init /\ [][SeqWheelNext]_vars

\* Timers and one Ticker together under the serialized schedule: one caller
\* creates them, nobody stops them.
SeqOrderNext ==
    \/ PulseEmit
    \/ CallersQuiet /\ DriverRecv
    \/ DriverCheck
    \/ DriverInc
    \/ TimerDoneRead
    \/ TimerFireLoad
    \/ TimerFireStore
    \/ TimerFireSend
    \/ TimerDoneDelete
    \/ TickerDoneRead
    \/ TickerFireLoad
    \/ TickerFireSend
    \/ TickerFireAdd
    \/ TickerDoneDelete
    \/ Quiet /\ \E d \in Durations : NewTimerRead("a", d)
    \/ NewTimerAdd("a")
    \/ Quiet /\ nK = 0 /\ \E d \in Durations : NewTickerRead("a", d)
    \/ NewTickerAdd("a")
    \/ \E t \in TimerIds : RecvTimer(t)
    \/ \E k \in TickerIds : RecvTicker(k)

SpecSeqOrder == Init /\ [][SeqOrderNext]_vars

\* TimeWheel.Stop under every interleaving and a fair scheduler: caller "a"
\* creates one Timer and one Ticker of one tick, caller "b" stops the wheel.
\* Every goroutine that can run does run in the end (the Driver, the
\* consumers, a caller inside a call), and the runtime's ticker keeps sending
\* while it is on.
WheelStopFairNext ==
    \/ PulseEmit
    \/ DriverStep
    \/ nT = 0 /\ NewTimerRead("a", interval)
    \/ NewTimerAdd("a")
    \/ nK = 0 /\ NewTickerRead("a", interval)
    \/ NewTickerAdd("a")
    \/ WheelStopStore("b")
    \/ WheelStopHalt("b")
    \/ ConsumerStep

SpecWheelStopFair ==
    /\ Init
    /\ [][WheelStopFairNext]_vars
    /\ WF_vars(PulseEmit)
    /\ WF_vars(DriverStep)
    /\ WF_vars(ConsumerStep)
    /\ WF_vars(NewTimerAdd("a"))
    /\ WF_vars(NewTickerAdd("a"))
    /\ WF_vars(WheelStopHalt("b"))

\* ------------------------------------------------------------- properties

\* The Driver has finished timeslot.done on the timer bucket of index n.
TimersDone(n) ==
    \/ current > n
    \/ current = n /\ dpc \notin {"tRead", "tLoad", "tStore", "tSend", "tDel"}

\* The Driver has finished timeslot.done on the ticker bucket of index n.
TickersDone(n) ==
    \/ current > n
    \/ current = n /\ dpc \in {"recv", "check", "inc", "exited"}

\* n is the tick count the specification gives for duration d at interval i:
\* 1 if d <= i, floor(d / i) otherwise.
IsTicksFor(n, d, i) ==
    /\ n >= 1
    /\ d <= i => n = 1
    /\ d > i => n * i <= d /\ d < (n + 1) * i

\* C3: a Timer created by NewTimer(d) or After(d) while the tick index is c
\* and the interval is i gets the bucket index c + ticksFor(d), ticksFor(d)
\* being 1 if d <= i and floor(d / i) otherwise, never zero; the Driver calls
\* it back at that tick index and at no other, and once the Driver has
\* processed the timer bucket of that index the Timer has been called back
\* and its one signal sent.
C3_TimerFiresAtItsTick ==
    /\ \A th \in Callers :
          cpc[th] = "ntAdd" =>
              /\ IsTicksFor(cloc[th] - current, cdur[th], interval)
              /\ hist.tIdx[carg[th]] = cloc[th]
    /\ \A t \in TimerIds :
          /\ hist.tFired[t] \subseteq {hist.tIdx[t]}
          /\ TimerPublished(t) /\ TimersDone(hist.tIdx[t]) =>
                /\ hist.tFired[t] = {hist.tIdx[t]}
                /\ hist.tSent[t] = 1

\* A Timer of more than one tick, created after the first pulse, has been
\* fired by the Driver and its signal is in its channel.
C3_Witness ==
    \E t \in TimerIds :
        /\ hist.tIdx[t] - hist.tPub[t] >= 2
        /\ hist.tPub[t] >= 1
        /\ hist.tFired[t] = {hist.tIdx[t]}
        /\ tStop[t] /\ tC[t] = 1

\* C1: under every interleaving of the Driver's firing of a Timer with Stop()
\* calls by concurrent callers, exactly one value is ever sent on the Timer's
\* channel: no second send ever completes.
C1_ExactlyOneSignal ==
    \A t \in TimerIds : hist.tSent[t] <= 1

\* Once a Stop() call on a handle has returned, a step stores no flag of it,
\* sends nothing on its channel, and a later call changes no store.
C2_LaterStopHasNoEffect ==
    /\ \A t \in TimerIds :
          hist.tCalls[t] >= 1 =>
              /\ tStop'[t] = tStop[t]
              /\ hist'.tSent[t] = hist.tSent[t]
              /\ tC'[t] <= tC[t]
              /\ \A th \in Callers : cpc'[th] \in {"tsStore", "tsSend"} => carg'[th] # t
              /\ hist'.tCalls[t] # hist.tCalls[t] => timerSlot' = timerSlot
    /\ \A k \in TickerIds :
          hist.kCalls[k] >= 1 =>
              /\ kStop'[k] = kStop[k]
              /\ hist'.kSent[k] = hist.kSent[k]
              /\ kC'[k] <= kC[k]
              /\ kInc'[k] = kInc[k]
              /\ \A th \in Callers : cpc'[th] \in {"ksStore", "ksSend"} => carg'[th] # k
              /\ hist'.kCalls[k] # hist.kCalls[k] => tickerSlot' = tickerSlot

\* C2: N > 1 sequential calls of Stop() on a Timer or a Ticker deliver exactly
\* one signal: once a call has returned, exactly one send has been made, and
\* no later call stores the flag, sends, or changes the handle or a store.
C2_StopIdempotent ==
    /\ [](\A t \in TimerIds : hist.tCalls[t] >= 1 => hist.tSent[t] = 1)
    /\ [](\A k \in TickerIds : hist.kCalls[k] >= 1 => hist.kSent[k] = 1)
    /\ [][C2_LaterStopHasNoEffect]_vars

\* Stop() has returned at least twice on a Timer and on a Ticker, and each
\* has had one signal from it.
C2_Witness ==
    /\ \E t \in TimerIds : hist.tCalls[t] = 2 /\ hist.tSent[t] = 1
    /\ \E k \in TickerIds : hist.kCalls[k] = 2 /\ hist.kSent[k] = 1

\* C4: every Timer of duration tw.interval created concurrently with the
\* Driver has delivered exactly one signal once the Driver has processed the
\* second pulse after its creation.
C4_NoTimerLost ==
    \A t \in TimerIds :
        TimerPublished(t) /\ TimersDone(hist.tPub[t] + 2) => hist.tSent[t] = 1

\* Stop() has been called on Ticker k: the call has stored the flag or is
\* about to.
TickerStopCalled(k) ==
    \/ kStop[k]
    \/ \E th \in Callers : cpc[th] \in {"ksStore", "ksSend"} /\ carg[th] = k

\* The ticks t0 + j * kInc[k], j >= 1, up to the current one.
TicksDue(k) ==
    {n \in (hist.kT0[k] + 1)..current : (n - hist.kT0[k]) % kInc[k] = 0}

\* The first tick t0 + j * kInc[k] after the current one.
NextTickDue(k) ==
    hist.kT0[k] + kInc[k] * ((current - hist.kT0[k]) \div kInc[k] + 1)

\* C5: a Ticker created at tick index t0 with increment k >= 1 and never
\* Reset gets a tick from the Driver at ticks t0 + k, t0 + 2k, ... only; while
\* Stop() has not been called on it, once the Driver has processed the ticker
\* bucket of the current tick it has had a tick at every one of them so far
\* and sits in the bucket of the next one alone.
C5_TickerPeriodicity ==
    \A k \in TickerIds :
        k <= nK =>
            /\ kInc[k] >= 1
            /\ hist.kFired[k] \subseteq TicksDue(k)
            /\ TickerPublished(k) /\ ~TickerStopCalled(k) /\ TickersDone(current) =>
                  /\ hist.kFired[k] = TicksDue(k)
                  /\ BucketsOf(tickerSlot, k) = {NextTickDue(k)}

\* A Ticker that is not stopped has had two ticks or more, every one due.
C5_Witness ==
    \E k \in TickerIds :
        /\ TickerPublished(k) /\ ~TickerStopCalled(k)
        /\ Cardinality(hist.kFired[k]) >= 2
        /\ hist.kFired[k] = TicksDue(k)
        /\ TickersDone(current)

\* The step in which the Driver's callback sends a tick on k.C.
DriverSendsTick(k) == dpc = "kSend" /\ dpc' = "kAdd" /\ ds[di] = k

\* The step in which the Driver's callback adds k to the ticker store again.
DriverRearms(k) == dpc = "kAdd" /\ dpc' # "kAdd" /\ ds[di] = k

\* C6: once Ticker.Stop() has returned, under every interleaving with the
\* Driver's callback, the Driver sends no further tick on the Ticker's channel
\* and does not add the Ticker to the ticker store again.
C6_NoTickAfterStop ==
    [][\A k \in TickerIds :
          hist.kCalls[k] >= 1 => ~DriverSendsTick(k) /\ ~DriverRearms(k)]_vars

\* C7: no send of the Driver on a Timer's or a Ticker's channel blocks: the
\* Driver is never at a send with the channel full.
C7_DriverSendNeverBlocks ==
    /\ ~(dpc = "tSend" /\ tC[ds[di]] = 1)
    /\ ~(dpc = "kSend" /\ kC[ds[di]] = 1)

\* C8: no Stop() call on a Timer or a Ticker blocks: no caller is ever at the
\* send of Stop() with the channel full.
C8_StopNeverBlocks ==
    \A th \in Callers :
        /\ ~(cpc[th] = "tsSend" /\ tC[carg[th]] = 1)
        /\ ~(cpc[th] = "ksSend" /\ kC[carg[th]] = 1)

\* A step that changes the increment of a Ticker callers hold, which only
\* Ticker.Reset does, sets it to d / tw.interval and changes nothing else of
\* the Ticker: not the ticker store, its channel, its flag or its history.
C9_ResetKeepsPending ==
    \A k \in TickerIds :
        TickerPublished(k) /\ kInc'[k] # kInc[k] =>
            /\ kInc'[k] \in {ResetIncrement(d, interval) : d \in Durations}
            /\ tickerSlot' = tickerSlot
            /\ kC' = kC /\ kStop' = kStop
            /\ hist' = hist
            /\ current' = current /\ dpc' = dpc

\* The Driver's callback adds the Ticker under the current tick index plus
\* the increment the Ticker holds at that moment, and moves no other entry.
C9_RearmUsesIncrement ==
    \A k \in TickerIds :
        DriverRearms(k) =>
            /\ BucketsOf(tickerSlot', k) =
                  BucketsOf(tickerSlot, k) \cup {current + kInc[k]}
            /\ hist'.kDue[k] = hist.kDue[k] \cup {current + kInc[k]}

\* A Ticker gets a tick from the Driver only at an index it was added under,
\* and, while Stop() has not been called on it, at every such index whose
\* ticker bucket the Driver has processed.
C9_FiresWhereAdded ==
    \A k \in TickerIds :
        k <= nK =>
            /\ hist.kFired[k] \subseteq hist.kDue[k]
            /\ TickerPublished(k) /\ ~TickerStopCalled(k) =>
                  \A n \in hist.kDue[k] : TickersDone(n) => n \in hist.kFired[k]

\* C9: Ticker.Reset called between two fires of a Ticker leaves the pending
\* occurrence in its bucket at its tick index, where the Ticker then fires,
\* and changes only the increment; the callback of that fire adds the Ticker
\* again at the current tick index plus the new increment.
C9_ResetChangesNextSpacingOnly ==
    /\ []C9_FiresWhereAdded
    /\ [][C9_ResetKeepsPending /\ C9_RearmUsesIncrement]_vars

\* A Ticker created at tick 0 with increment 1 fired at tick 1, was Reset to
\* increment 2 before tick 2, fired at tick 2 all the same and was added
\* again under index 4.
C9_Witness ==
    \E k \in TickerIds :
        /\ hist.kT0[k] = 0
        /\ hist.kFired[k] = {1, 2}
        /\ hist.kDue[k] = {1, 2, 4}
        /\ kInc[k] = 2
        /\ BucketsOf(tickerSlot, k) = {4}

\* The Driver waits for a pulse, is at its check of tw.stop, or has returned.
DriverBetweenPulses == dpc \in {"recv", "check", "exited"}

\* The step in which the Driver completes a send on a channel.
DriverDelivers == dpc \in {"tSend", "kSend"} /\ dpc' # dpc

\* The claim as stated: after TimeWheel.Stop() has returned, whatever the
\* Driver was doing, the tick index never advances and the Driver never
\* delivers a signal.
C10_NothingAfterStop ==
    [][hist.wStopped => current' = current /\ ~DriverDelivers]_vars

\* Once TimeWheel.Stop() has returned and the Driver is between pulses, the
\* Driver stays there: the index does not advance, the Driver delivers
\* nothing, and no entry leaves its bucket.
C10_NoNewPulse ==
    hist.wStopped /\ DriverBetweenPulses =>
        /\ DriverBetweenPulses'
        /\ current' = current
        /\ ~DriverDelivers
        /\ \A t \in TimerIds : BucketsOf(timerSlot, t) \subseteq BucketsOf(timerSlot', t)
        /\ \A k \in TickerIds : BucketsOf(tickerSlot, k) \subseteq BucketsOf(tickerSlot', k)

\* C10: after TimeWheel.Stop() has returned the Driver begins no new pulse:
\* the tick index advances at most once more, by the pulse the Driver was
\* processing when Stop() was called, and once the Driver is between pulses
\* the index never advances again, the Driver delivers no signal, and the
\* entries pending in the stores stay in their buckets.
C10_StopHaltsAtPulseEnd ==
    /\ [](hist.wStopped => current <= hist.wCur + 1)
    /\ [][C10_NoNewPulse]_vars

\* Stop() returned while the Driver was past its check of tw.stop: the Driver
\* finished that pulse, advancing the index once, then took the pulse left
\* in the channel, saw the flag and returned, a Ticker still in its bucket.
C10_Witness ==
    /\ hist.wStopped
    /\ current = hist.wCur + 1
    /\ dpc = "exited"
    /\ \E k \in TickerIds : TickerPublished(k) /\ BucketsOf(tickerSlot, k) # {}

\* C11: after TimeWheel.Stop() has returned, tw.now, which Now() returns and
\* Since() subtracts from, is never assigned again, a pulse pending at the
\* moment of Stop() included.
C11_NowFrozenAfterStop ==
    [][hist.wStopped => now' = now]_vars

\* A step that changes tw.interval, which only TimeWheel.Reset does, changes
\* nothing else of the wheel, the stores, the handles, the Driver or the
\* callers.
C12_ResetFrame ==
    interval' # interval =>
        /\ current' = current /\ now' = now /\ wstop' = wstop
        /\ timerSlot' = timerSlot /\ tickerSlot' = tickerSlot
        /\ timerVars' = timerVars /\ tickerVars' = tickerVars
        /\ driverVars' = driverVars /\ callerVars' = callerVars
        /\ hist' = hist

\* A Ticker.Reset step computes the increment from the interval recorded at
\* that moment.
C12_TickerResetUsesInterval ==
    \A k \in TickerIds :
        TickerPublished(k) /\ kInc'[k] # kInc[k] =>
            kInc'[k] \in {ResetIncrement(d, interval) : d \in Durations}

\* NewTimer and NewTicker compute the tick count from the interval recorded
\* at that moment.
C12_CreationUsesInterval ==
    \A th \in Callers :
        /\ cpc[th] = "ntAdd" =>
              IsTicksFor(cloc[th] - current, cdur[th], interval)
        /\ cpc[th] = "nkAdd" =>
              /\ IsTicksFor(cloc[th] - current, cdur[th], interval)
              /\ kInc[carg[th]] = cloc[th] - current

\* C12: TimeWheel.Reset(d) changes only the pulse period and tw.interval: the
\* tick index, both stores and the bucket of every scheduled entry are
\* unchanged, and the tick counts of later NewTimer, NewTicker and
\* Ticker.Reset calls are computed from the new interval.
C12_WheelResetChangesIntervalOnly ==
    /\ []C12_CreationUsesInterval
    /\ [][C12_ResetFrame /\ C12_TickerResetUsesInterval]_vars

\* A Ticker of 35 created at tick 0 under interval 10 is still in bucket 3,
\* unfired, after the interval was reset to 20, and a Timer of 35 created
\* now gets one tick.
C12_Witness ==
    /\ interval = 20
    /\ \E k \in TickerIds :
          /\ TickerPublished(k)
          /\ hist.kT0[k] = 0 /\ hist.kFired[k] = {}
          /\ BucketsOf(tickerSlot, k) = {3}
    /\ cpc["a"] = "ntAdd" /\ cdur["a"] = 35 /\ cloc["a"] = current + 1

\* A step that changes tw.current is the Driver's increment, by one, and the
\* Driver's check of tw.stop leads to it exactly when the flag is not set.
C17_OnlyDriverIncrements ==
    /\ current' # current =>
          /\ current' = current + 1
          /\ dpc = "inc" /\ dpc' = "tRead"
          /\ callerVars' = callerVars
    /\ dpc = "check" /\ dpc' # "check" =>
          dpc' = IF wstop THEN "exited" ELSE "inc"
    /\ dpc = "inc" /\ dpc' # "inc" => current' = current + 1

\* C17: tw.current is modified only by the Driver, by exactly 1 on each
\* pulse it takes while the wheel is not stopped: it never decreases, resets
\* or skips a value, it never exceeds the number of pulses, and no operation
\* of a caller changes it.
C17_IndexAdvancesByOne ==
    /\ [](current >= 0 /\ current <= clock)
    /\ [][C17_OnlyDriverIncrements]_vars

\* The index has advanced twice while the caller stopped a Timer and a
\* Ticker and reset the interval to 5.
C17_Witness ==
    /\ current >= 2
    /\ interval = 5
    /\ \E t \in TimerIds : hist.tCalls[t] >= 1
    /\ \E k \in TickerIds : hist.kCalls[k] >= 1

\* The Driver is in timeslot.done on the timer store, on the ticker store.
InTimerDone == dpc \in {"tRead", "tLoad", "tStore", "tSend", "tDel"}
InTickerDone == dpc \in {"kRead", "kLoad", "kSend", "kAdd", "kDel"}

\* While the Driver processes the timer bucket of a tick no Ticker has had
\* that tick; when it processes the ticker bucket every Timer due at that
\* tick has been called back and has sent its signal.
C13_TimersBeforeTickers ==
    /\ InTimerDone => \A k \in TickerIds : current \notin hist.kFired[k]
    /\ InTickerDone =>
          \A t \in TimerIds :
              TimerPublished(t) /\ hist.tIdx[t] = current =>
                  /\ hist.tFired[t] = {current}
                  /\ tStop[t] /\ hist.tSent[t] = 1

\* The Driver calls back the entries of a bucket in the order of the
\* bucket's sequence: those before the one in hand have been called back at
\* this tick, those after it have not.
C13_FiredInBucketOrder ==
    /\ dpc \in {"tLoad", "tStore", "tSend"} =>
          /\ current \in DOMAIN timerSlot
          /\ ds = SubSeq(timerSlot[current], 1, Len(ds))
          /\ \A i \in 1..Len(ds) :
                /\ i < di => current \in hist.tFired[ds[i]]
                /\ i > di => current \notin hist.tFired[ds[i]]
    /\ dpc \in {"kLoad", "kSend", "kAdd"} =>
          /\ current \in DOMAIN tickerSlot
          /\ ds = SubSeq(tickerSlot[current], 1, Len(ds))
          /\ \A i \in 1..Len(ds) :
                /\ i < di => current \in hist.kFired[ds[i]]
                /\ i > di => current \notin hist.kFired[ds[i]]

\* A bucket's sequence is in the order of the adds: Timers, which are added
\* once each in the order of their creation, are in that order.
C13_BucketInAddOrder ==
    \A idx \in DOMAIN timerSlot :
        \A i, j \in 1..Len(timerSlot[idx]) :
            i < j => timerSlot[idx][i] < timerSlot[idx][j]

\* A step leaves a bucket, deletes it, or adds entries at its end.
C13_AddAppends ==
    /\ \A idx \in DOMAIN timerSlot \cap DOMAIN timerSlot' :
          timerSlot[idx] = SubSeq(timerSlot'[idx], 1, Len(timerSlot[idx]))
    /\ \A idx \in DOMAIN tickerSlot \cap DOMAIN tickerSlot' :
          tickerSlot[idx] = SubSeq(tickerSlot'[idx], 1, Len(tickerSlot[idx]))

\* C13: within the Driver's pulse at tick n every Timer of the timer bucket
\* at n is fired before any Ticker of the ticker bucket at n is fired or
\* re-armed, and the entries of a bucket are fired in the order in which
\* they were added to it.
C13_FiringOrder ==
    /\ [](C13_TimersBeforeTickers /\ C13_FiredInBucketOrder /\ C13_BucketInAddOrder)
    /\ [][C13_AddAppends]_vars

\* The Driver has fired two Timers of one bucket, the first created first,
\* and now turns to a Ticker due at the same tick.
C13_Witness ==
    /\ dpc = "kLoad"
    /\ \E t1, t2 \in TimerIds :
          /\ t1 < t2
          /\ hist.tIdx[t1] = current /\ hist.tIdx[t2] = current
          /\ hist.tFired[t1] = {current} /\ hist.tFired[t2] = {current}
          /\ hist.tPub[t1] < hist.tPub[t2]

\* C14: an add(idx, e) made while done(idx) is processing idx, by a callback
\* or by a concurrent caller, is not discarded by that processing, as done
\* took the bucket out of the store before its first callback: the bucket
\* done deletes holds no entry other than those it called back.
C14_AddDuringDoneKept ==
    [][/\ dpc = "tDel" /\ dpc' # "tDel" /\ current \in DOMAIN timerSlot =>
             timerSlot[current] = ds
       /\ dpc = "kDel" /\ dpc' # "kDel" /\ current \in DOMAIN tickerSlot =>
             tickerSlot[current] = ds]_vars

\* The Driver's steps that access the map of the timer store, of the ticker
\* store, and those of them done or add makes between ts.mu.Lock() and
\* ts.mu.Unlock().
TimerMapSteps == {"tRead", "tDel"}
TickerMapSteps == {"kRead", "kAdd", "kDel"}
LockedSteps == {"tDel", "kAdd", "kDel"}

\* A caller is at the add of NewTimer, of NewTicker: its next step writes the
\* map of the timer store, of the ticker store, inside add's critical section.
TimerMapWriter == \E th \in Callers : cpc[th] = "ntAdd"
TickerMapWriter == \E th \in Callers : cpc[th] = "nkAdd"

\* C15: every access to a store's map, reads included, is made with the
\* store's mutex held: whenever the Driver is at an access of a map that a
\* caller is about to write, the Driver's access is a locked one, so no
\* unsynchronised read runs concurrently with a write.
C15_MapAccessLocked ==
    /\ dpc \in TimerMapSteps /\ TimerMapWriter => dpc \in LockedSteps
    /\ dpc \in TickerMapSteps /\ TickerMapWriter => dpc \in LockedSteps

\* C16: after any NewTicker and Ticker.Reset(d) calls, d below tw.interval
\* included, the increment of a Ticker is at least 1, and a Ticker that has
\* not been stopped sits, once the Driver has processed the current tick, in
\* a bucket of a later tick.
C16_IncrementAtLeastOne ==
    \A k \in TickerIds :
        TickerPublished(k) =>
            /\ kInc[k] >= 1
            /\ ~TickerStopCalled(k) /\ TickersDone(current) =>
                  \E n \in BucketsOf(tickerSlot, k) : n > current

\* C18: in every reachable state every bucket in a store holds at least one
\* entry, and a store holds no bucket at an index whose done has completed.
C18_NoEmptyNoProcessedBucket ==
    /\ \A idx \in DOMAIN timerSlot :
          Len(timerSlot[idx]) >= 1 /\ ~TimersDone(idx)
    /\ \A idx \in DOMAIN tickerSlot :
          Len(tickerSlot[idx]) >= 1 /\ ~TickersDone(idx)

\* C19: once TimeWheel.Stop() has returned, the Driver's loop eventually
\* returns.
C19_DriverExitsAfterStop ==
    hist.wStopped ~> dpc = "exited"

\* C20: in every reachable state tw.interval is at least minInterval, after
\* New for any argument and after any TimeWheel.Reset(d).
C20_IntervalAtLeastMin ==
    interval >= minInterval
====
